---- MODULE Spec2Model ----
(***************************************************************************)
(* A model of smart_grocery_list.py: the quantity parser, the consolidator *)
(* with its dietary filter, the cost estimator and the threaded fetch.     *)
(*                                                                         *)
(* Python strings that the program takes apart (measurements, ingredient   *)
(* names) are sequences of one-character strings.  Python numbers are      *)
(* exact rationals <<n, d>> with d > 0 in lowest terms, so float rounding  *)
(* is not modelled.  Unit labels and filter names, which the program only  *)
(* compares, are TLA+ strings.                                             *)
(***************************************************************************)
EXTENDS Integers, Sequences, FiniteSets, TLC

VARIABLES
    pc,            \* the statement main() or fetch_recipes_parallel is at
    quantity,      \* parse_quantity's argument `quantity`
    ingredient,    \* parse_quantity's argument `ingredient`
    parsed,        \* parse_quantity's return value (total, unit)
    dishes,        \* main()'s list `dishes`, the argument of fetch_recipes_parallel
    started,       \* fetch_recipes_parallel: how many threads were started
    joined,        \* fetch_recipes_parallel: how many threads were joined
    tpc,           \* per thread: its position in fetch_recipe
    response,      \* per thread: what requests.get / response.json() gave
    puts,          \* per thread: number of results_queue.put calls it has made
    results_queue, \* the module-level Queue
    recipes,       \* the dict `results` / `recipes`, in insertion order
    filter_type,   \* consolidate_ingredients' argument `filter_type`
    consolidated,  \* consolidate_ingredients' return value, Unset before the call
    costed         \* calculate_costs' outcome, Unset before the call

vars == <<pc, quantity, ingredient, parsed, dishes, started, joined, tpc,
          response, puts, results_queue, recipes, filter_type, consolidated, costed>>

\* None where a unit label or a filter name may stand
None == "None"

\* None where a text may stand (no text has an element of four characters)
NoneText == <<"None">>

\* None where a list of meal records may stand, and such a list
NoMeals == [none |-> TRUE, list |-> <<>>]

MealList(l) == [none |-> FALSE, list |-> l]

\* the values a variable holding a DataFrame takes: not assigned yet, None,
\* the frame with its rows, or the exception that left it unassigned
Unset == [kind |-> "Unset", rows |-> <<>>]

NoFrame == [kind |-> "None", rows |-> <<>>]

Frame(rows) == [kind |-> "DataFrame", rows |-> rows]

Raised(e) == [kind |-> e, rows |-> <<>>]

\* `parsed` before parse_quantity has returned
NotParsed == [total |-> <<0, 1>>, unit |-> "Unset"]

(***************************************************************************)
(* Characters                                                              *)
(***************************************************************************)
DigitChars == <<"0", "1", "2", "3", "4", "5", "6", "7", "8", "9">>

UpperChars == <<"A", "B", "C", "D", "E", "F", "G", "H", "I", "J", "K", "L", "M",
                "N", "O", "P", "Q", "R", "S", "T", "U", "V", "W", "X", "Y", "Z">>

LowerChars == <<"a", "b", "c", "d", "e", "f", "g", "h", "i", "j", "k", "l", "m",
                "n", "o", "p", "q", "r", "s", "t", "u", "v", "w", "x", "y", "z">>

\* The characters of the model in code point order (space, +, -, ., /, 0-9, A-Z, a-z).
CodePoints == <<" ", "+", "-", ".", "/">> \o DigitChars \o UpperChars \o LowerChars

Range(f) == {f[i] : i \in DOMAIN f}

IsDigit(c) == c \in Range(DigitChars)

IsAlpha(c) == c \in Range(UpperChars) \cup Range(LowerChars)

IsSpace(c) == c = " "

IsNumChar(c) == IsDigit(c) \/ c = "." \/ c = "/"

DigitVal(c) == (CHOOSE i \in DOMAIN DigitChars : DigitChars[i] = c) - 1

Ord(c) == CHOOSE i \in DOMAIN CodePoints : CodePoints[i] = c

LowerChar(c) ==
    IF c \in Range(UpperChars)
    THEN LowerChars[CHOOSE i \in DOMAIN UpperChars : UpperChars[i] = c]
    ELSE c

UpperChar(c) ==
    IF c \in Range(LowerChars)
    THEN UpperChars[CHOOSE i \in DOMAIN LowerChars : LowerChars[i] = c]
    ELSE c

\* str.lower()
Lower(s) == [i \in DOMAIN s |-> LowerChar(s[i])]

RECURSIVE LStrip(_)
LStrip(s) == IF s # <<>> /\ IsSpace(s[1]) THEN LStrip(Tail(s)) ELSE s

RECURSIVE RStrip(_)
RStrip(s) ==
    IF s # <<>> /\ IsSpace(s[Len(s)]) THEN RStrip(SubSeq(s, 1, Len(s) - 1)) ELSE s

\* str.strip()
Strip(s) == LStrip(RStrip(s))

\* s < t for Python strings: lexicographic by code point
RECURSIVE StrLess(_, _)
StrLess(s, t) ==
    IF t = <<>> THEN FALSE
    ELSE IF s = <<>> THEN TRUE
    ELSE IF s[1] # t[1] THEN Ord(s[1]) < Ord(t[1])
    ELSE StrLess(Tail(s), Tail(t))

(***************************************************************************)
(* Numbers: exact rationals                                                *)
(***************************************************************************)
RECURSIVE GCD(_, _)
GCD(a, b) == IF b = 0 THEN a ELSE GCD(b, a % b)

Rat(n, d) == LET g == GCD(n, d) IN <<n \div g, d \div g>>

Zero == Rat(0, 1)

RAdd(x, y) == Rat(x[1] * y[2] + y[1] * x[2], x[2] * y[2])

RMul(x, y) == Rat(x[1] * y[1], x[2] * y[2])

\* x / y, for y # 0
RDiv(x, y) == Rat(x[1] * y[2], x[2] * y[1])

\* x // y, for y # 0 (operands are never negative).  The quotient is exact:
\* Python's floats give 1 // .1 = 9.0 where this gives 10.
RFloorDiv(x, y) == Rat((x[1] * y[2]) \div (x[2] * y[1]), 1)

RLess(x, y) == x[1] * y[2] < y[1] * x[2]

RECURSIVE Pow10(_)
Pow10(n) == IF n = 0 THEN 1 ELSE 10 * Pow10(n - 1)

(***************************************************************************)
(* eval(match.group(1)): Python's evaluation of a text made of digits,     *)
(* '.' and '/'.  The text is an expression when it is a number followed by *)
(* any number of (/ or //) number; anything else is a SyntaxError, a zero  *)
(* divisor a ZeroDivisionError.  "..." evaluates to Ellipsis, on which the *)
(* arithmetic of parse_quantity raises TypeError: every such failure is    *)
(* caught by the same `except Exception`, so all are the outcome ok=FALSE. *)
(***************************************************************************)
RECURSIVE DigitRunEnd(_, _)
\* the index after the longest run of digits of s that starts at i
DigitRunEnd(s, i) ==
    IF i <= Len(s) /\ IsDigit(s[i]) THEN DigitRunEnd(s, i + 1) ELSE i

RECURSIVE DecimalValue(_, _, _)
\* the value of the digits s[i..j-1] read in base ten (0 for no digits)
DecimalValue(s, i, j) ==
    IF j <= i THEN 0 ELSE DecimalValue(s, i, j - 1) * 10 + DigitVal(s[j - 1])

\* A decimal integer literal may not start with 0 unless it is all zeros.
IntLiteralOk(s, i, j) ==
    s[i] # "0" \/ \A k \in i..(j - 1) : s[k] = "0"

\* the number literal of s that starts at i: its value and the index after it
NumberToken(s, i) ==
    IF i > Len(s) THEN [ok |-> FALSE, val |-> Zero, next |-> i]
    ELSE IF IsDigit(s[i]) THEN
        LET j == DigitRunEnd(s, i) IN
        IF j <= Len(s) /\ s[j] = "." THEN
            LET k == DigitRunEnd(s, j + 1)
                p == Pow10(k - j - 1)
            IN  [ok |-> TRUE,
                 val |-> Rat(DecimalValue(s, i, j) * p + DecimalValue(s, j + 1, k), p),
                 next |-> k]
        ELSE [ok |-> IntLiteralOk(s, i, j),
              val |-> Rat(DecimalValue(s, i, j), 1),
              next |-> j]
    ELSE IF s[i] = "." /\ i + 1 <= Len(s) /\ IsDigit(s[i + 1]) THEN
        LET k == DigitRunEnd(s, i + 1)
            p == Pow10(k - i - 1)
        IN  [ok |-> TRUE, val |-> Rat(DecimalValue(s, i + 1, k), p), next |-> k]
    ELSE [ok |-> FALSE, val |-> Zero, next |-> i]

RECURSIVE EvalFrom(_, _, _)
\* the value of acc (op number)* where the operators start at index i of s
EvalFrom(s, i, acc) ==
    IF i > Len(s) THEN [ok |-> TRUE, val |-> acc]
    ELSE IF s[i] # "/" THEN [ok |-> FALSE, val |-> Zero]
    ELSE
        LET floor == i + 1 <= Len(s) /\ s[i + 1] = "/"
            t == NumberToken(s, IF floor THEN i + 2 ELSE i + 1)
        IN  IF ~t.ok \/ t.val = Zero THEN [ok |-> FALSE, val |-> Zero]
            ELSE EvalFrom(s, t.next, IF floor THEN RFloorDiv(acc, t.val)
                                              ELSE RDiv(acc, t.val))

PyEval(s) ==
    LET t == NumberToken(s, 1) IN
    IF t.ok THEN EvalFrom(s, t.next, t.val) ELSE [ok |-> FALSE, val |-> Zero]

(***************************************************************************)
(* The regular expressions of parse_quantity                               *)
(***************************************************************************)
\* whether c is of the class [\d./], \s or [a-zA-Z] of the pattern
InClass(class, c) ==
    CASE class = "[\\d./]" -> IsNumChar(c)
      [] class = "\\s" -> IsSpace(c)
      [] class = "[a-zA-Z]" -> IsAlpha(c)

RECURSIVE RunEnd(_, _, _)
\* the index after the longest run of s from i whose characters are of the class
RunEnd(class, s, i) ==
    IF i <= Len(s) /\ InClass(class, s[i]) THEN RunEnd(class, s, i + 1) ELSE i

\* the index of the first "+" of s, or 0
PlusAt(s) ==
    IF \E i \in DOMAIN s : s[i] = "+"
    THEN CHOOSE i \in DOMAIN s : s[i] = "+" /\ \A j \in 1..(i - 1) : s[j] # "+"
    ELSE 0

RECURSIVE Split(_)
\* re.split(r"\s*\+\s*", s)
Split(s) ==
    LET i == PlusAt(s) IN
    IF i = 0 THEN <<s>>
    ELSE <<RStrip(SubSeq(s, 1, i - 1))>> \o Split(LStrip(SubSeq(s, i + 1, Len(s))))

\* re.match(r"([\d./]+)\s*([a-zA-Z]*)", part): group(1) and group(2)
Match(part) ==
    LET a == RunEnd("[\\d./]", part, 1)
        b == RunEnd("\\s", part, a)
        c == RunEnd("[a-zA-Z]", part, b)
    IN  [matched |-> a > 1,
         number |-> SubSeq(part, 1, a - 1),
         word |-> SubSeq(part, b, c - 1)]

(***************************************************************************)
(* The static tables                                                       *)
(***************************************************************************)
unit_conversions ==
    (<<"t", "b", "s">> :> Rat(15, 1)) @@
    (<<"t", "b", "s", "p">> :> Rat(15, 1)) @@
    (<<"t", "s", "p">> :> Rat(5, 1)) @@
    (<<"c", "u", "p">> :> Rat(240, 1)) @@
    (<<"o", "z">> :> Rat(2835, 100)) @@
    (<<"l", "b">> :> Rat(45359, 100)) @@
    (<<"m", "l">> :> Rat(1, 1)) @@
    (<<"l">> :> Rat(1000, 1)) @@
    (<<"g">> :> Rat(1, 1)) @@
    (<<"k", "g">> :> Rat(1000, 1))

\* the list ["g", "kg", "oz", "lb"] of parse_quantity
MassUnits == {<<"g">>, <<"k", "g">>, <<"o", "z">>, <<"l", "b">>}

logical_units ==
    (<<"p", "a", "r", "s", "l", "e", "y">> :> "bunches") @@
    (<<"s", "u", "g", "a", "r">> :> "grams") @@
    (<<"s", "a", "l", "t">> :> "grams") @@
    (<<"f", "l", "o", "u", "r">> :> "grams") @@
    (<<"b", "u", "t", "t", "e", "r">> :> "grams") @@
    (<<"m", "i", "l", "k">> :> "milliliters") @@
    (<<"w", "a", "t", "e", "r">> :> "milliliters") @@
    (<<"e", "g", "g", "s">> :> "pieces") @@
    (<<"o", "i", "l">> :> "milliliters") @@
    (<<"v", "a", "n", "i", "l", "l", "a">> :> "teaspoons")

cost_database ==
    (<<"m", "i", "l", "k">> :> Rat(2, 1000)) @@
    (<<"s", "u", "g", "a", "r">> :> Rat(5, 1000)) @@
    (<<"e", "g", "g", "s">> :> Rat(25, 100)) @@
    (<<"f", "l", "o", "u", "r">> :> Rat(2, 1000)) @@
    (<<"b", "u", "t", "t", "e", "r">> :> Rat(1, 100)) @@
    (<<"w", "a", "t", "e", "r">> :> Rat(1, 10000))

default_cost_per_unit == Rat(10, 100)

dietary_filters ==
    ("vegan" :> {<<"m", "i", "l", "k">>, <<"b", "u", "t", "t", "e", "r">>,
                 <<"e", "g", "g", "s">>, <<"c", "h", "e", "e", "s", "e">>,
                 <<"c", "r", "e", "a", "m">>}) @@
    ("gluten-free" :> {<<"f", "l", "o", "u", "r">>, <<"w", "h", "e", "a", "t">>})

(***************************************************************************)
(* parse_quantity                                                          *)
(***************************************************************************)
\* the base unit the code records for a unit word found in unit_conversions
BaseUnit(unit_part) ==
    IF unit_part \in MassUnits THEN "grams" ELSE "milliliters"

\* ParsePart with the unit word compared as written, without .lower()
ParsePart_CaseSensitive(acc, part) ==
    LET m == Match(part)
        e == PyEval(m.number)
        unit_part == m.word
    IN  IF ~m.matched \/ ~e.ok THEN acc
        ELSE IF unit_part \in DOMAIN unit_conversions
        THEN [total |-> RAdd(acc.total, RMul(e.val, unit_conversions[unit_part])),
              unit |-> BaseUnit(unit_part)]
        ELSE [total |-> RAdd(acc.total, e.val), unit |-> acc.unit]

\* One pass of the loop body on `part`; acc is (total, unit) before it.
\* No match leaves both alone; an exception in eval leaves both alone too.
ParsePart(acc, part) ==
    LET m == Match(part)
        e == PyEval(m.number)
        unit_part == Lower(m.word)
    IN  IF ~m.matched \/ ~e.ok THEN acc
        ELSE IF unit_part \in DOMAIN unit_conversions
        THEN [total |-> RAdd(acc.total, RMul(e.val, unit_conversions[unit_part])),
              unit |-> BaseUnit(unit_part)]
        ELSE [total |-> RAdd(acc.total, e.val), unit |-> acc.unit]

RECURSIVE ParseParts(_, _)
ParseParts(acc, parts) ==
    IF parts = <<>> THEN acc
    ELSE ParseParts(ParsePart(acc, Head(parts)), Tail(parts))

\* logical_units.get(ingredient.lower(), "pieces")
LogicalUnit(ingr) ==
    IF Lower(ingr) \in DOMAIN logical_units THEN logical_units[Lower(ingr)]
    ELSE "pieces"

\* the `if not unit or unit == "unknown":` block after the loop
AssignLogicalUnit(r, ingr) ==
    [total |-> r.total,
     unit |-> IF r.unit = None \/ r.unit = "unknown"
              THEN LogicalUnit(ingr) ELSE r.unit]

\* total = 0 and unit = None before the loop
ParseStart == [total |-> Zero, unit |-> None]

parse_quantity(q, ingr) ==
    AssignLogicalUnit(ParseParts(ParseStart, Split(q)), ingr)

(***************************************************************************)
(* Inputs of parse_quantity                                                *)
(***************************************************************************)
MaxTokenLen == 5
MaxSegments == 2
MaxTenths == 25

\* the characters of the numeric tokens tried: every text of them up to
\* MaxTokenLen characters is an input
TokenChars == {"0", "1", "2", ".", "/"}

RECURSIVE Digits(_)
\* str(n) for a natural number n
Digits(n) ==
    IF n < 10 THEN <<DigitChars[n + 1]>>
    ELSE Digits(n \div 10) \o <<DigitChars[(n % 10) + 1]>>

\* "{v}" for the int n, and for the float k/10 (one decimal: 0.5, 2.0, 1.5)
FormatInt(n) == Digits(n)

FormatTenths(k) == Digits(k \div 10) \o <<".">> \o Digits(k % 10)

\* the numeric values v of the model with their text "{v}"
Values ==
    {[val |-> Rat(n, 1), text |-> FormatInt(n)] : n \in 0..(MaxTenths \div 10)}
    \cup {[val |-> Rat(k, 10), text |-> FormatTenths(k)] : k \in 0..MaxTenths}

RECURSIVE CaseVariants(_)
\* every spelling of the word w in upper and lower case letters
CaseVariants(w) ==
    IF w = <<>> THEN {<<>>}
    ELSE {<<c>> \o r : c \in {w[1], UpperChar(w[1])}, r \in CaseVariants(Tail(w))}

UnitWords == UNION {CaseVariants(u) : u \in DOMAIN unit_conversions}

\* unit words the table does not hold
OtherWords == {<<>>, <<"e", "g", "g", "s">>, <<"c", "u", "p", "s">>, <<"G", "r">>}

Separators == {<<>>, <<" ">>}

s_milk == <<"M", "i", "l", "k">>
s_eggs == <<"e", "g", "g", "s">>
s_kiwi == <<"k", "i", "w", "i">>

Ingredients == {s_milk, s_eggs, s_kiwi}

\* the words that follow a raw token directly
ProbeWords == {<<>>, <<"g">>, <<"C", "u", "p">>, <<"x">>}

SegmentChoices ==
    { <<"1", " ", "c", "u", "p">>,          \* 240 milliliters
      <<"2", " ", "t", "b", "s", "p">>,     \* 30 milliliters
      <<"1", "/", "2", " ", "K", "g">>,     \* 500 grams
      <<"2", " ", "e", "g", "g", "s">>,     \* 2, unit not in the table
      <<"3">>,                              \* 3, no unit
      <<"0", "5", " ", "g">>,               \* an integer with a leading zero
      <<"1", "/", "2", "/", "2", " ", "o", "z">>,  \* two slashes
      <<"1", "/", "/", "2", " ", "l">>,     \* a double slash
      <<"1", "/", "0", " ", "g">>,          \* zero denominator
      <<"a", " ", "c", "u", "p">>,          \* no number
      <<>> }

Pluses == {<<"+">>, <<" ", "+", " ">>}

RECURSIVE JoinWith(_, _)
\* pl.join(segs)
JoinWith(segs, pl) ==
    IF Len(segs) = 1 THEN segs[1]
    ELSE segs[1] \o pl \o JoinWith(Tail(segs), pl)

(***************************************************************************)
(* The parser alone: parse_quantity applied to one input                   *)
(***************************************************************************)
Idle ==
    /\ dishes = <<>>
    /\ started = 0
    /\ joined = 0
    /\ tpc = <<>>
    /\ response = <<>>
    /\ puts = <<>>
    /\ results_queue = <<>>
    /\ recipes = <<>>
    /\ filter_type = None
    /\ consolidated = Unset
    /\ costed = Unset

InitParse ==
    /\ pc = "parse"
    /\ \/ \E n \in 0..MaxTokenLen : \E tok \in [1..n -> TokenChars] :
            \E w \in ProbeWords :
                /\ quantity = tok \o w
                /\ ingredient = s_kiwi
       \/ \E v \in Values : \E sep \in Separators : \E w \in UnitWords \cup OtherWords :
                /\ quantity = v.text \o sep \o w
                /\ ingredient \in Ingredients
       \/ \E n \in 2..MaxSegments : \E segs \in [1..n -> SegmentChoices] :
            \E pl \in Pluses :
                /\ quantity = JoinWith(segs, pl)
                /\ ingredient \in Ingredients
    /\ parsed = NotParsed
    /\ Idle

ParseQuantity ==
    /\ pc = "parse"
    /\ parsed' = parse_quantity(quantity, ingredient)
    /\ pc' = "parsed"
    /\ UNCHANGED <<quantity, ingredient, dishes, started, joined, tpc, response,
                   puts, results_queue, recipes, filter_type, consolidated, costed>>

NextParse == ParseQuantity

SpecParse == InitParse /\ [][NextParse]_vars

(***************************************************************************)
(* consolidate_ingredients                                                 *)
(*                                                                         *)
(* `recipes` is the dict in insertion order: a sequence of                 *)
(* [dish, meals], meals being None or a list of meal records.  A meal      *)
(* record is the sequence of its slots [ingredient, measure]              *)
(* (strIngredient1/strMeasure1, ...), each None or a text.  The DataFrame  *)
(* is the sequence of its rows.                                            *)
(***************************************************************************)
\* range(1, 21): the slots strIngredient1 .. strIngredient20
LastSlot == 20

\* Python truth of a value that is None or a text
Truthy(x) == x # NoneText /\ x # <<>>

\* `not meals`: None or the empty list
NotMeals(meals) == meals.none \/ meals.list = <<>>

\* meal.get(f"strIngredient{i}") and meal.get(f"strMeasure{i}")
SlotOf(meal, i) ==
    IF i \in DOMAIN meal THEN meal[i]
    ELSE [ingredient |-> NoneText, measure |-> NoneText]

RECURSIVE MealEntries(_, _)
\* the entries appended for the slots i..LastSlot of one meal
MealEntries(meal, i) ==
    IF i > LastSlot THEN <<>>
    ELSE LET s == SlotOf(meal, i)
             rest == MealEntries(meal, i + 1)
         IN  IF Truthy(s.ingredient) /\ Truthy(s.measure)
             THEN <<[Ingredient |-> Strip(s.ingredient),
                     Quantity |-> Strip(s.measure)]>> \o rest
             ELSE rest

RECURSIVE MealsEntries(_)
MealsEntries(meals) ==
    IF meals = <<>> THEN <<>>
    ELSE MealEntries(Head(meals), 1) \o MealsEntries(Tail(meals))

RECURSIVE CollectIngredients(_)
\* ingredients_list after the loop over recipes.items()
CollectIngredients(rs) ==
    IF rs = <<>> THEN <<>>
    ELSE (IF NotMeals(Head(rs).meals) THEN <<>> ELSE MealsEntries(Head(rs).meals.list))
         \o CollectIngredients(Tail(rs))

\* the columns "Parsed Quantity" and "Unit" added to every row
ParseRows(list) ==
    [i \in DOMAIN list |->
        LET r == parse_quantity(list[i].Quantity, list[i].Ingredient)
        IN  [Ingredient |-> list[i].Ingredient, Parsed |-> r.total, Unit |-> r.unit]]

IsPositive(row) == RLess(Zero, row.Parsed)

\* df[df["Parsed Quantity"] > 0]
PositiveRows(df) == SelectSeq(df, IsPositive)

RECURSIVE SortedKeys(_)
\* the keys of a groupby in its order (sort=True): ascending string order
SortedKeys(S) ==
    IF S = {} THEN <<>>
    ELSE LET m == CHOOSE x \in S : \A y \in S \ {x} : StrLess(x, y)
         IN  <<m>> \o SortedKeys(S \ {m})

\* SumParsed taking the group's first value for its sum
SumParsed_First(group) ==
    IF group = <<>> THEN Zero ELSE Head(group).Parsed

RECURSIVE SumParsed(_)
\* group["Parsed Quantity"].sum()
SumParsed(group) ==
    IF group = <<>> THEN Zero
    ELSE RAdd(Head(group).Parsed, SumParsed(Tail(group)))

\* the unit labels of the program, in Python's string order
UnitLabels == <<"bunches", "grams", "milliliters", "pieces", "teaspoons">>

LabelRank(u) == CHOOSE i \in DOMAIN UnitLabels : UnitLabels[i] = u

Count(group, u) == Cardinality({i \in DOMAIN group : group[i].Unit = u})

\* group["Unit"].mode(): the most frequent values, which pandas returns sorted
Modes(group) ==
    {u \in {group[i].Unit : i \in DOMAIN group} :
        \A i \in DOMAIN group : Count(group, group[i].Unit) <= Count(group, u)}

\* ModeUnit taking the mode that occurs first in the group
ModeUnit_FirstSeen(group) ==
    LET first == CHOOSE i \in DOMAIN group :
                    /\ group[i].Unit \in Modes(group)
                    /\ \A j \in 1..(i - 1) : group[j].Unit \notin Modes(group)
    IN  group[first].Unit

\* group["Unit"].mode().iloc[0]: the first of the sorted modes
ModeUnit(group) ==
    CHOOSE u \in Modes(group) : \A w \in Modes(group) : LabelRank(u) <= LabelRank(w)

\* the row the lambda of groupby(...).apply builds for the group of `name`
GroupRow(df, name) ==
    LET group == SelectSeq(df, LAMBDA r : r.Ingredient = name)
    IN  [Ingredient |-> name, Quantity |-> SumParsed(group), Unit |-> ModeUnit(group)]

\* df.groupby("Ingredient", as_index=False).apply(...); no groups give no rows
GroupRows(df) ==
    LET keys == SortedKeys({df[i].Ingredient : i \in DOMAIN df})
    IN  [k \in DOMAIN keys |-> GroupRow(df, keys[k])]

\* dietary_filters.get(filter_type, [])
Excluded(ft) == IF ft \in DOMAIN dietary_filters THEN dietary_filters[ft] ELSE {}

\* ApplyFilter comparing the names as written, without .str.lower()
ApplyFilter_CaseSensitive(rows, ft) ==
    IF ft = None \/ ft = ""
    THEN rows
    ELSE SelectSeq(rows, LAMBDA r : r.Ingredient \notin Excluded(ft))

\* the `if filter_type:` block
ApplyFilter(rows, ft) ==
    IF ft = None \/ ft = ""
    THEN rows
    ELSE SelectSeq(rows, LAMBDA r : Lower(r.Ingredient) \notin Excluded(ft))

consolidate_ingredients(rs, ft) ==
    LET ingredients_list == CollectIngredients(rs) IN
    IF ingredients_list = <<>> THEN NoFrame
    ELSE Frame(ApplyFilter(GroupRows(PositiveRows(ParseRows(ingredients_list))), ft))

(***************************************************************************)
(* calculate_costs                                                         *)
(***************************************************************************)
\* cost_database.get(ingredient.lower(), default_cost_per_unit) * quantity
get_cost(ingr, qty) ==
    RMul(IF Lower(ingr) \in DOMAIN cost_database
         THEN cost_database[Lower(ingr)] ELSE default_cost_per_unit, qty)

\* dataframe["Cost"] = dataframe.apply(..., axis=1).  On a frame with no rows
\* DataFrame.apply returns an empty DataFrame, not a Series, and assigning a
\* frame of several columns to the one column "Cost" raises ValueError.
calculate_costs(dataframe) ==
    IF dataframe = <<>> THEN Raised("ValueError")
    ELSE Frame([i \in DOMAIN dataframe |->
            [Ingredient |-> dataframe[i].Ingredient,
             Quantity |-> dataframe[i].Quantity,
             Unit |-> dataframe[i].Unit,
             Cost |-> get_cost(dataframe[i].Ingredient, dataframe[i].Quantity)]])

(***************************************************************************)
(* fetch_recipe and fetch_recipes_parallel                                 *)
(***************************************************************************)
MaxDishes == 2

s_flour == <<"F", "l", "o", "u", "r">>

Slot(i, m) == [ingredient |-> i, measure |-> m]

\* what TheMealDB holds for the dish names of the model: data.get('meals', [])
Catalogue ==
    ("A" :> << <<Slot(s_milk, <<"1", " ", "c", "u", "p">>),
                 Slot(s_kiwi, <<"2", " ", "g">>),
                 Slot(<<>>, <<" ">>)>> >>) @@
    ("B" :> << <<Slot(s_kiwi, <<"1", " ", "m", "l">>),
                 Slot(s_flour, <<"p", "i", "n", "c", "h">>)>> >>)

DishNames == DOMAIN Catalogue

\* the ways one call of fetch_recipe can go
Outcomes == {"meals", "no_meals", "bad_status", "request_error"}

\* the dict fetch_recipe puts on the queue
QueueItem(dish, outcome) ==
    [dish |-> dish,
     meals |-> IF outcome = "meals" THEN MealList(Catalogue[dish]) ELSE NoMeals]

\* QueueAfterPut with no put in the `except requests.RequestException` branch
QueueAfterPut_NoneOnError(q, dish, outcome) ==
    IF outcome = "request_error" THEN q ELSE Append(q, QueueItem(dish, outcome))

\* results_queue after the put that fetch_recipe makes on every path
QueueAfterPut(q, dish, outcome) == Append(q, QueueItem(dish, outcome))

\* results.update(item) on the insertion-ordered dict
Update(rs, item) ==
    IF \E i \in DOMAIN rs : rs[i].dish = item.dish
    THEN [i \in DOMAIN rs |-> IF rs[i].dish = item.dish THEN item ELSE rs[i]]
    ELSE Append(rs, item)

Threads == DOMAIN dishes

NoParse == /\ quantity = <<>> /\ ingredient = <<>> /\ parsed = NotParsed

\* main() after its prompts: the validated dishes and the dietary filter,
\* which main() sets to None unless it is a key of dietary_filters
Init ==
    /\ pc = "start"
    /\ \E n \in 1..MaxDishes : dishes \in [1..n -> DishNames]
    /\ filter_type \in {None} \cup DOMAIN dietary_filters
    /\ started = 0
    /\ joined = 0
    /\ tpc = [i \in DOMAIN dishes |-> "new"]
    /\ response = [i \in DOMAIN dishes |-> None]
    /\ puts = [i \in DOMAIN dishes |-> 0]
    /\ results_queue = <<>>
    /\ recipes = <<>>
    /\ consolidated = Unset
    /\ costed = Unset
    /\ NoParse

\* fetch_recipes_parallel, first loop: thread.start() for the next dish
StartThread ==
    /\ pc = "start"
    /\ started' = started + 1
    /\ tpc' = [tpc EXCEPT ![started + 1] = "request"]
    /\ pc' = IF started + 1 = Len(dishes) THEN "join" ELSE "start"
    /\ UNCHANGED <<quantity, ingredient, parsed, dishes, joined, response, puts,
                   results_queue, recipes, filter_type, consolidated, costed>>

\* fetch_recipe in thread i: requests.get, status_code, response.json()
Request(i) ==
    /\ tpc[i] = "request"
    /\ \E o \in Outcomes : response' = [response EXCEPT ![i] = o]
    /\ tpc' = [tpc EXCEPT ![i] = "put"]
    /\ UNCHANGED <<pc, quantity, ingredient, parsed, dishes, started, joined, puts,
                   results_queue, recipes, filter_type, consolidated, costed>>

\* fetch_recipe in thread i: the results_queue.put of the path taken
Put(i) ==
    /\ tpc[i] = "put"
    /\ results_queue' = QueueAfterPut(results_queue, dishes[i], response[i])
    /\ puts' = [puts EXCEPT ![i] = @ + Len(results_queue') - Len(results_queue)]
    /\ tpc' = [tpc EXCEPT ![i] = "done"]
    /\ UNCHANGED <<pc, quantity, ingredient, parsed, dishes, started, joined,
                   response, recipes, filter_type, consolidated, costed>>

\* whether thread.join() of thread i returns
JoinReturns(i) == tpc[i] = "done"

\* fetch_recipes_parallel, second loop: thread.join() for the next thread
Join ==
    /\ pc = "join"
    /\ JoinReturns(joined + 1)
    /\ joined' = joined + 1
    /\ pc' = IF joined + 1 = Len(dishes) THEN "drain" ELSE "join"
    /\ UNCHANGED <<quantity, ingredient, parsed, dishes, started, tpc, response,
                   puts, results_queue, recipes, filter_type, consolidated, costed>>

\* one pass of `while not results_queue.empty()`
Drain ==
    /\ pc = "drain"
    /\ results_queue # <<>>
    /\ recipes' = Update(recipes, Head(results_queue))
    /\ results_queue' = Tail(results_queue)
    /\ UNCHANGED <<pc, quantity, ingredient, parsed, dishes, started, joined, tpc,
                   response, puts, filter_type, consolidated, costed>>

\* `return results`, and main() goes on to consolidate
Return ==
    /\ pc = "drain"
    /\ results_queue = <<>>
    /\ pc' = "consolidate"
    /\ UNCHANGED <<quantity, ingredient, parsed, dishes, started, joined, tpc,
                   response, puts, results_queue, recipes, filter_type,
                   consolidated, costed>>

\* main(): consolidate_ingredients(recipes, dietary_filter)
Consolidate ==
    /\ pc = "consolidate"
    /\ consolidated' = consolidate_ingredients(recipes, filter_type)
    /\ pc' = IF consolidated' # NoFrame THEN "format" ELSE "done"
    /\ UNCHANGED <<quantity, ingredient, parsed, dishes, started, joined, tpc,
                   response, puts, results_queue, recipes, filter_type, costed>>

\* main(): format_output, whose first statement is calculate_costs(dataframe)
CalculateCosts ==
    /\ pc = "format"
    /\ costed' = calculate_costs(consolidated.rows)
    /\ pc' = "done"
    /\ UNCHANGED <<quantity, ingredient, parsed, dishes, started, joined, tpc,
                   response, puts, results_queue, recipes, filter_type,
                   consolidated>>

Next ==
    \/ StartThread
    \/ \E i \in Threads : Request(i)
    \/ \E i \in Threads : Put(i)
    \/ Join
    \/ Drain
    \/ Return
    \/ Consolidate
    \/ CalculateCosts

Spec == Init /\ [][Next]_vars

(***************************************************************************)
(* The consolidator and the cost estimator alone, on any fetched recipes   *)
(***************************************************************************)
MaxEntries == 3

\* the slots a meal record of the model can hold
SlotChoices ==
    { Slot(s_milk, <<"1", " ", "c", "u", "p">>),
      Slot(<<"m", "i", "l", "k", " ">>, <<"1", "/", "2", " ", "c", "u", "p">>),
      Slot(s_kiwi, <<"1", " ", "m", "l">>),
      Slot(s_kiwi, <<" ", "2", " ", "g">>),
      Slot(s_kiwi, <<"p", "i", "n", "c", "h">>) }

\* the slots TheMealDB leaves unused in a meal record: "" with " ", and null
UnusedSlots == <<Slot(<<>>, <<" ">>), Slot(NoneText, NoneText)>>

\* the recipes made of the slots `slots` cut after slot `cut`: two dishes of
\* one meal each, with a dish without data between them or not, or one dish
\* of two meals
RecipesOf(slots, cut, shape) ==
    LET m1 == SubSeq(slots, 1, cut) \o UnusedSlots
        m2 == SubSeq(slots, cut + 1, Len(slots)) \o UnusedSlots
    IN  IF shape = "meals" THEN <<[dish |-> "A", meals |-> MealList(<<m1, m2>>)]>>
        ELSE <<[dish |-> "A", meals |-> MealList(<<m1>>)]>>
             \o (IF shape = "absent" THEN <<[dish |-> "N", meals |-> NoMeals]>>
                 ELSE <<>>)
             \o <<[dish |-> "B", meals |-> MealList(<<m2>>)]>>

Shapes == {"dishes", "absent", "meals"}

\* no filter, a filter of the table, a name the table does not hold
FilterInputs == {None, "vegan", "keto"}

InitConsolidate ==
    /\ pc = "consolidate"
    /\ \E n \in 0..MaxEntries : \E slots \in [1..n -> SlotChoices] :
            \E cut \in 0..n : \E shape \in Shapes :
                recipes = RecipesOf(slots, cut, shape)
    /\ filter_type \in FilterInputs
    /\ dishes = <<>>
    /\ started = 0
    /\ joined = 0
    /\ tpc = <<>>
    /\ response = <<>>
    /\ puts = <<>>
    /\ results_queue = <<>>
    /\ consolidated = Unset
    /\ costed = Unset
    /\ NoParse

NextConsolidate == Consolidate \/ CalculateCosts

SpecConsolidate == InitConsolidate /\ [][NextConsolidate]_vars

(***************************************************************************)
(* What the specification calls a numeric token: an integer, a decimal or  *)
(* a fraction with a single slash; and what it says of one segment         *)
(***************************************************************************)
DotCount(tok) == Cardinality({i \in DOMAIN tok : tok[i] = "."})

SlashCount(tok) == Cardinality({i \in DOMAIN tok : tok[i] = "/"})

\* digits with at most one decimal point, and at least one digit
IsNumeral(tok) ==
    /\ \A i \in DOMAIN tok : IsDigit(tok[i]) \/ tok[i] = "."
    /\ \E i \in DOMAIN tok : IsDigit(tok[i])
    /\ DotCount(tok) <= 1

NumeralValue(tok) ==
    LET dot == IF DotCount(tok) = 1 THEN CHOOSE i \in DOMAIN tok : tok[i] = "."
               ELSE Len(tok) + 1
        p == Pow10(IF dot > Len(tok) THEN 0 ELSE Len(tok) - dot)
    IN  Rat(DecimalValue(tok, 1, dot) * p + DecimalValue(tok, dot + 1, Len(tok) + 1), p)

SlashAt(tok) == CHOOSE i \in DOMAIN tok : tok[i] = "/"

IsFraction(tok) ==
    /\ SlashCount(tok) = 1
    /\ IsNumeral(SubSeq(tok, 1, SlashAt(tok) - 1))
    /\ IsNumeral(SubSeq(tok, SlashAt(tok) + 1, Len(tok)))
    /\ NumeralValue(SubSeq(tok, SlashAt(tok) + 1, Len(tok))) # Zero

WellFormedToken(tok) == IsNumeral(tok) \/ IsFraction(tok)

TokenValue(tok) ==
    IF IsNumeral(tok) THEN NumeralValue(tok)
    ELSE RDiv(NumeralValue(SubSeq(tok, 1, SlashAt(tok) - 1)),
              NumeralValue(SubSeq(tok, SlashAt(tok) + 1, Len(tok))))

\* a segment with a well-formed leading numeric token
WellFormedSegment(part) == Match(part).matched /\ WellFormedToken(Match(part).number)

\* a well-formed segment whose unit word is in the Unit Table
ResolvesUnit(part) ==
    WellFormedSegment(part) /\ Lower(Match(part).word) \in DOMAIN unit_conversions

\* value times the Unit Table multiplier, times 1 without a recognized unit
SegmentAmount(part) ==
    IF ResolvesUnit(part)
    THEN RMul(TokenValue(Match(part).number), unit_conversions[Lower(Match(part).word)])
    ELSE TokenValue(Match(part).number)

RECURSIVE ExpectedAmount(_)
\* the sum of the amounts of the well-formed segments, left to right
ExpectedAmount(parts) ==
    IF parts = <<>> THEN Zero
    ELSE IF WellFormedSegment(parts[Len(parts)])
    THEN RAdd(ExpectedAmount(SubSeq(parts, 1, Len(parts) - 1)),
              SegmentAmount(parts[Len(parts)]))
    ELSE ExpectedAmount(SubSeq(parts, 1, Len(parts) - 1))

MassAbbreviations == {<<"g">>, <<"k", "g">>, <<"o", "z">>, <<"l", "b">>}

ExpectedBaseUnit(word) ==
    IF Lower(word) \in MassAbbreviations THEN "grams" ELSE "milliliters"

\* the last segment that resolves a unit
LastResolved(parts) ==
    CHOOSE i \in DOMAIN parts :
        ResolvesUnit(parts[i]) /\ \A j \in (i + 1)..Len(parts) : ~ResolvesUnit(parts[j])

Parsed == pc = "parsed"

(***************************************************************************)
(* C4: the amount is the sum, over the well-formed segments from left to   *)
(* right, of value times multiplier (times 1 without a recognized unit),   *)
(* and when some segment has a recognized unit the unit is the base unit   *)
(* of the last such segment.  Stated as claimed; the code breaks it.       *)
(***************************************************************************)
C4_SumAndLastUnit ==
    Parsed =>
        LET parts == Split(quantity) IN
        /\ parsed.total = ExpectedAmount(parts)
        /\ (\E i \in DOMAIN parts : ResolvesUnit(parts[i]))
            => parsed.unit = ExpectedBaseUnit(Match(parts[LastResolved(parts)]).word)

(***************************************************************************)
(* C5: for every abbreviation u of the Unit Table in any letter case,      *)
(* every numeric value v and every ingredient, parsing "v u" (or "vu")     *)
(* gives amount v times the multiplier of u, and unit "grams" exactly for  *)
(* g, kg, oz, lb and "milliliters" for the others, never the ingredient's  *)
(* fallback unit.                                                          *)
(***************************************************************************)
C5_RecognizedUnit ==
    Parsed =>
        \A u \in DOMAIN unit_conversions : \A w \in CaseVariants(u) :
            (/\ Len(quantity) > Len(w)
             /\ SubSeq(quantity, Len(quantity) - Len(w) + 1, Len(quantity)) = w)
            => \A v \in Values : \A sep \in Separators :
                quantity = v.text \o sep \o w =>
                    /\ parsed.total = RMul(v.val, unit_conversions[u])
                    /\ parsed.unit = IF u \in MassAbbreviations THEN "grams"
                                     ELSE "milliliters"

\* "1.5 KG" of milk (fallback unit milliliters) is 1500 grams
C5_Witness ==
    /\ Parsed
    /\ quantity = <<"1", ".", "5", " ", "K", "G">>
    /\ ingredient = s_milk
    /\ parsed = [total |-> Rat(1500, 1), unit |-> "grams"]

(***************************************************************************)
(* C6: when no segment has a recognized unit (every segment is unitless,   *)
(* has a unit word outside the table, or is skipped), the unit is the      *)
(* Logical Unit entry of the lower-cased ingredient, "pieces" without one, *)
(* and the amount is the plain sum of the numeric values.  Stated as       *)
(* claimed; the code breaks it.                                            *)
(***************************************************************************)
C6_FallbackUnit ==
    LET parts == Split(quantity) IN
    (Parsed /\ \A i \in DOMAIN parts : ~ResolvesUnit(parts[i])) =>
        /\ parsed.unit = IF \E k \in DOMAIN logical_units : \E c \in CaseVariants(k) :
                                ingredient = c
                         THEN logical_units[Lower(ingredient)] ELSE "pieces"
        /\ parsed.total = ExpectedAmount(parts)

(***************************************************************************)
(* C7: parse_quantity always returns, with amount >= 0, and a segment      *)
(* whose leading token is not a well-formed integer, decimal or            *)
(* single-slash fraction is skipped: the result is the one the remaining   *)
(* segments give alone.  Stated as claimed; the code breaks it.            *)
(***************************************************************************)
C7_MalformedSkipped ==
    Parsed =>
        /\ parsed.total[1] >= 0
        /\ parsed = AssignLogicalUnit(
                        ParseParts(ParseStart, SelectSeq(Split(quantity), WellFormedSegment)),
                        ingredient)

(***************************************************************************)
(* The entries of the recipes as fetched, for the claims on consolidation  *)
(***************************************************************************)
RECURSIVE Flatten(_)
Flatten(ss) == IF ss = <<>> THEN <<>> ELSE Head(ss) \o Flatten(Tail(ss))

\* every slot of every meal of every dish that has meals, in order
FetchedSlots(rs) ==
    Flatten([i \in DOMAIN rs |-> Flatten(rs[i].meals.list)])

HasText(x) == x # NoneText /\ x # <<>>

\* the (trimmed name, parsed amount, unit) of the slots holding both texts
FetchedEntries(rs) ==
    LET slots == SelectSeq(FetchedSlots(rs),
                           LAMBDA s : HasText(s.ingredient) /\ HasText(s.measure))
    IN  [i \in DOMAIN slots |->
            LET p == parse_quantity(Strip(slots[i].measure), Strip(slots[i].ingredient))
            IN  [name |-> Strip(slots[i].ingredient), amount |-> p.total, unit |-> p.unit]]

\* the entries of one ingredient name with a positive amount, in order
Contributing(rs, name) ==
    SelectSeq(FetchedEntries(rs), LAMBDA e : e.name = name /\ RLess(Zero, e.amount))

RECURSIVE AmountSum(_)
AmountSum(es) == IF es = <<>> THEN Zero ELSE RAdd(es[1].amount, AmountSum(Tail(es)))

RowNames(frame) == {frame.rows[i].Ingredient : i \in DOMAIN frame.rows}

RowOf(frame, name) ==
    frame.rows[CHOOSE i \in DOMAIN frame.rows : frame.rows[i].Ingredient = name]

Consolidated == consolidated # Unset

(***************************************************************************)
(* C1: consolidate_ingredients returns None whenever no entry with a       *)
(* positive parsed amount remains, be the entry list empty or every amount *)
(* 0; it never returns a successful result for it.  Stated as claimed; the *)
(* code breaks it.                                                         *)
(***************************************************************************)
C1_EmptyInputIsNone ==
    (Consolidated /\ \A i \in DOMAIN FetchedEntries(recipes) :
                        ~RLess(Zero, FetchedEntries(recipes)[i].amount))
        => consolidated = NoFrame

(***************************************************************************)
(* C2: without a filter the result has exactly one row per distinct        *)
(* trimmed, case-preserved name that has an entry with amount > 0, the     *)
(* row's quantity is the sum of the parsed amounts of the entries of       *)
(* exactly that name, and for a name in both parts of the recipes the      *)
(* quantity of the whole is the sum of the quantities of the parts.        *)
(***************************************************************************)
C2_OneRowPerNameSummed ==
    (Consolidated /\ filter_type = None /\ consolidated # NoFrame) =>
        LET es == FetchedEntries(recipes) IN
        /\ RowNames(consolidated) =
                {es[i].name : i \in {j \in DOMAIN es : RLess(Zero, es[j].amount)}}
        /\ \A i, j \in DOMAIN consolidated.rows :
                consolidated.rows[i].Ingredient = consolidated.rows[j].Ingredient => i = j
        /\ \A i \in DOMAIN consolidated.rows :
                consolidated.rows[i].Quantity =
                    AmountSum(SelectSeq(es, LAMBDA e : e.name = consolidated.rows[i].Ingredient))
        /\ \A k \in 0..Len(recipes) :
                LET a == consolidate_ingredients(SubSeq(recipes, 1, k), None)
                    b == consolidate_ingredients(SubSeq(recipes, k + 1, Len(recipes)), None)
                IN  \A n \in RowNames(a) \cap RowNames(b) :
                        RowOf(consolidated, n).Quantity =
                            RAdd(RowOf(a, n).Quantity, RowOf(b, n).Quantity)

\* "Milk" twice over two dishes and "milk " once: rows Milk 480 and milk 120
C2_Witness ==
    /\ Consolidated
    /\ filter_type = None
    /\ Len(recipes) = 2
    /\ s_milk \in RowNames(consolidate_ingredients(SubSeq(recipes, 1, 1), None))
    /\ s_milk \in RowNames(consolidate_ingredients(SubSeq(recipes, 2, 2), None))
    /\ consolidated.rows =
            <<[Ingredient |-> s_milk, Quantity |-> Rat(480, 1), Unit |-> "milliliters"],
              [Ingredient |-> Lower(s_milk), Quantity |-> Rat(120, 1),
               Unit |-> "milliliters"]>>

(***************************************************************************)
(* C3 as claimed: every row's unit is the unit that occurs most often      *)
(* among the positive entries of its name, and among units that tie, the   *)
(* one encountered first.  The code breaks it.                             *)
(***************************************************************************)
UnitCount(es, u) == Cardinality({i \in DOMAIN es : es[i].unit = u})

MostFrequent(es) ==
    {u \in {es[i].unit : i \in DOMAIN es} :
        \A i \in DOMAIN es : UnitCount(es, es[i].unit) <= UnitCount(es, u)}

FirstSeenMode(es) ==
    es[CHOOSE i \in DOMAIN es :
            /\ es[i].unit \in MostFrequent(es)
            /\ \A j \in 1..(i - 1) : es[j].unit \notin MostFrequent(es)].unit

C3_FirstSeenMode ==
    Consolidated =>
        \A i \in DOMAIN consolidated.rows :
            consolidated.rows[i].Unit =
                FirstSeenMode(Contributing(recipes, consolidated.rows[i].Ingredient))

(***************************************************************************)
(* C3 as amended: every row's unit is one of the units that occur most     *)
(* often among the positive entries of its name, and among units that tie, *)
(* the one that is least in string order, whatever the order of entries.   *)
(***************************************************************************)
C3_LeastMode ==
    Consolidated =>
        \A i \in DOMAIN consolidated.rows :
            LET most == MostFrequent(Contributing(recipes, consolidated.rows[i].Ingredient))
            IN  /\ consolidated.rows[i].Unit \in most
                /\ \A u \in most : LabelRank(consolidated.rows[i].Unit) <= LabelRank(u)

\* kiwi met first in milliliters, then in grams: a tie, and the row says grams
C3_Witness ==
    /\ Consolidated
    /\ \E i \in DOMAIN consolidated.rows :
        LET es == Contributing(recipes, consolidated.rows[i].Ingredient) IN
        /\ Len(es) = 2
        /\ es[1].unit = "milliliters"
        /\ es[2].unit = "grams"
        /\ consolidated.rows[i].Unit = "grams"

(***************************************************************************)
(* C8: the filter only removes rows.  With a recognized filter name the    *)
(* result is exactly the unfiltered rows whose name is no letter-case      *)
(* variant of a name of the filter's exclusion set, each unchanged; with   *)
(* no filter or an unrecognized name the rows are returned unchanged.      *)
(***************************************************************************)
IsExcluded(name, ft) ==
    \E x \in dietary_filters[ft] : name \in CaseVariants(x)

C8_FilterOnlyRemoves ==
    (Consolidated /\ consolidated # NoFrame) =>
        LET unfiltered == consolidate_ingredients(recipes, None).rows IN
        consolidated.rows =
            IF filter_type \in {"vegan", "gluten-free"}
            THEN SelectSeq(unfiltered, LAMBDA r : ~IsExcluded(r.Ingredient, filter_type))
            ELSE unfiltered

\* vegan: the rows Milk and kiwi become the row kiwi alone
C8_Witness ==
    /\ Consolidated
    /\ filter_type = "vegan"
    /\ RowNames(consolidate_ingredients(recipes, None)) = {s_milk, s_kiwi}
    /\ RowNames(consolidated) = {s_kiwi}

(***************************************************************************)
(* C9: calculate_costs never fails, adds to every row a cost >= 0 equal to *)
(* the row's quantity times the Cost Table entry of the lower-cased name   *)
(* (0.10 without an entry), and leaves the rows otherwise as they were.    *)
(* Stated as claimed; the code breaks it.                                  *)
(***************************************************************************)
ExpectedCostPerUnit(name) ==
    IF \E k \in DOMAIN cost_database : name \in CaseVariants(k)
    THEN cost_database[Lower(name)] ELSE Rat(1, 10)

C9_CostsNeverFail ==
    (pc = "done" /\ consolidated # NoFrame) =>
        /\ costed.kind = "DataFrame"
        /\ Len(costed.rows) = Len(consolidated.rows)
        /\ \A i \in DOMAIN costed.rows :
            /\ costed.rows[i].Ingredient = consolidated.rows[i].Ingredient
            /\ costed.rows[i].Quantity = consolidated.rows[i].Quantity
            /\ costed.rows[i].Unit = consolidated.rows[i].Unit
            /\ costed.rows[i].Cost =
                RMul(ExpectedCostPerUnit(consolidated.rows[i].Ingredient),
                     consolidated.rows[i].Quantity)
            /\ costed.rows[i].Cost[1] >= 0

(***************************************************************************)
(* C10: one thread is started per requested dish; under every interleaving *)
(* each thread puts exactly one result on the queue whatever its outcome,  *)
(* meal records when it got some and the absent marker otherwise; the      *)
(* queue is drained only after every thread was joined; on return the      *)
(* queue is empty and the map has one entry for every distinct requested   *)
(* dish; and consolidate_ingredients skips the dishes with an absent       *)
(* marker, giving what the other dishes give alone.                        *)
(***************************************************************************)
Returned == pc \in {"consolidate", "format", "done"}

ThreadsOf(d) == {i \in DOMAIN dishes : dishes[i] = d}

EntryOf(d) == recipes[CHOOSE i \in DOMAIN recipes : recipes[i].dish = d]

C10_FetchJoinsAndCollects ==
    /\ pc # "start" => (started = Len(dishes) /\ \A i \in DOMAIN dishes : tpc[i] # "new")
    /\ \A i \in DOMAIN dishes : puts[i] = (IF tpc[i] = "done" THEN 1 ELSE 0)
    /\ (pc = "drain" \/ Returned) => \A i \in DOMAIN dishes : tpc[i] = "done"
    /\ Returned =>
        /\ results_queue = <<>>
        /\ {recipes[i].dish : i \in DOMAIN recipes} = Range(dishes)
        /\ Len(recipes) = Cardinality(Range(dishes))
        /\ \A d \in Range(dishes) :
            /\ (\A i \in ThreadsOf(d) : response[i] = "meals")
                => EntryOf(d).meals = MealList(Catalogue[d])
            /\ (\A i \in ThreadsOf(d) : response[i] # "meals")
                => EntryOf(d).meals = NoMeals
    /\ Consolidated =>
        consolidated =
            consolidate_ingredients(SelectSeq(recipes, LAMBDA r : r.meals # NoMeals),
                                    filter_type)

\* two dishes, the first fetch failed on a request error, the second got its
\* meals, and the grocery list holds the second dish's kiwi
C10_Witness ==
    /\ pc = "done"
    /\ dishes = <<"A", "B">>
    /\ response = <<"request_error", "meals">>
    /\ Len(recipes) = 2
    /\ consolidated.kind = "DataFrame"
    /\ RowNames(consolidated) = {s_kiwi}
    /\ costed.kind = "DataFrame"

====
